---- MODULE Spec2Model ----
(***************************************************************************)
(* State-machine model of the DMS test-automation core:                    *)
(*   - DmsApiClient (utils/apiClient.ts): init / dispose / request methods *)
(*   - the response assertion helpers of utils/apiClient.ts                *)
(*   - the form-filling and composite operations of the page objects       *)
(*   - the wait primitives of pages/BasePage.ts                            *)
(*   - the generators of utils/testData.ts                                 *)
(*   - getNextBusinessDay of utils/testData.ts                             *)
(*   - the tests of the "API - Repair Orders" suite that share a variable  *)
(*   - the query operations of RepairOrdersPage on the list page           *)
(*   - the calendar operations of AppointmentsPage                         *)
(*   - the close and is-open operations of the details panel and modal     *)
(* Each component has its own specification (SpecApi, SpecAssert, ...);    *)
(* the variables of the other components stay at their initial values.     *)
(***************************************************************************)
EXTENDS Integers, Sequences, FiniteSets, TLC

VARIABLES
    \* ---- DmsApiClient (utils/apiClient.ts) ----
    apiContext,   \* this.apiContext: 0 is null, otherwise the index of a context
    baseURL,      \* this.baseURL
    authToken,    \* this.authToken
    contexts,     \* every APIRequestContext made by request.newContext, in order
    sent,         \* number of HTTP requests handed to a context so far
    lastRequest,  \* the last HTTP request handed to a context, or NoRequest
    apiResult,    \* how the last client call ended
    \* ---- assertion helpers (utils/apiClient.ts) ----
    now,          \* Date.now(), in milliseconds
    assertInput,  \* the arguments the test passes to an assertion helper
    assertCall,   \* the assertion call made: its arguments and how it ended
    assertPrev,   \* the assertion call made before that one, if any
    \* ---- form operations of RepairOrdersPage / AppointmentsPage ----
    formOp,       \* the page-object operation the test calls
    formData,     \* its argument: the payload, a function from field names to strings
    formStatus,   \* "ready", "running", "returned" or "threw"
    formPc,       \* the await the operation is suspended at
    fields,       \* the current value of every field of the form
    uiLog,        \* the interactions issued to the page, in order
    \* ---- wait primitives of BasePage ----
    waitCall,     \* the BasePage method called and its timeout argument
    defaultTimeout, \* the timeout the engine applies when none is passed (0: none)
    element,      \* the element the locator matches: "absent", "hidden" or "visible"
    waitElapsed,  \* milliseconds since locator.waitFor was called
    waitStatus,   \* "ready", "waiting", "returned" or "threw"
    waitOutcome,  \* how locator.waitFor ended: "none", "resolved", "TimeoutError", "Error"
    waitValue,    \* what the method returned, or the error it threw
    \* ---- generators of utils/testData.ts ----
    currentYear,  \* new Date().getFullYear()
    randomDraw,   \* the next Math.random() is randomDraw / RandomSteps
    randomStride, \* how far the Math.random() after that is from it
    orderNumbers, \* the order numbers generateOrderNumber returned in this run
    genCall,      \* the generator called, its position and the string it returned
    \* ---- getNextBusinessDay of utils/testData.ts ----
    today,        \* new Date(): the instant (UTC day and hour) and the host's UTC offset
    dateCall,     \* the call made and the string it returned
    \* ---- the "API - Repair Orders" test suite ----
    createdOrderId, \* the suite-level variable `let createdOrderId`
    suiteLog,     \* the tests run so far: the request each issued and how it ended
    \* ---- the repair-orders list page and the queries of RepairOrdersPage ----
    page,         \* what the browser shows: table, message, rows, pagination text
    lastQuery,    \* the last page-object operation: its result and the engine calls it made
    prevQuery,    \* the operation before it, when the page has not changed since
    \* ---- the calendar view and the calendar methods of AppointmentsPage ----
    calMonth,     \* the month the calendar shows, in months since January 2024
    calLog,       \* the calendar operations made, in order, and how each ended
    \* ---- the details panel / modal and its close and is-open methods ----
    panelOp,      \* the close method the test calls: closeDetailsPanel or closeDetailsModal
    panel,        \* the details element: "absent", "hidden" or "visible"
    panelPc,      \* "ready", "waitHidden", "closed", "checking", "done" or "threw"
    panelElapsed, \* milliseconds since the pending locator.waitFor was called
    panelSeen,    \* the element state on which the wait for "hidden" resolved
    panelReshown, \* the element became visible again after the close method returned
    panelOpen     \* what isDetailsPanelOpen / isDetailsModalOpen returned

apiVars == <<apiContext, baseURL, authToken, contexts, sent, lastRequest, apiResult>>
assertVars == <<now, assertInput, assertCall, assertPrev>>

formVars == <<formOp, formData, formStatus, formPc, fields, uiLog>>

waitVars ==
    <<waitCall, defaultTimeout, element, waitElapsed, waitStatus, waitOutcome, waitValue>>

genVars == <<currentYear, randomDraw, randomStride, orderNumbers, genCall>>

dateVars == <<today, dateCall>>
suiteVars == <<createdOrderId, suiteLog>>
pageVars == <<page, lastQuery, prevQuery>>
calendarVars == <<calMonth, calLog>>
panelVars ==
    <<panelOp, panel, panelPc, panelElapsed, panelSeen, panelReshown, panelOpen>>

vars == <<apiVars, assertVars, formVars, waitVars, genVars, dateVars, suiteVars, pageVars, calendarVars, panelVars>>

notApiVars == <<assertVars, formVars, waitVars, genVars, dateVars, suiteVars, pageVars, calendarVars, panelVars>>
notAssertVars == <<apiVars, formVars, waitVars, genVars, dateVars, suiteVars, pageVars, calendarVars, panelVars>>
notFormVars == <<apiVars, assertVars, waitVars, genVars, dateVars, suiteVars, pageVars, calendarVars, panelVars>>
notWaitVars == <<apiVars, assertVars, formVars, genVars, dateVars, suiteVars, pageVars, calendarVars, panelVars>>
notGenVars == <<apiVars, assertVars, formVars, waitVars, dateVars, suiteVars, pageVars, calendarVars, panelVars>>
notDateVars == <<apiVars, assertVars, formVars, waitVars, genVars, suiteVars, pageVars, calendarVars, panelVars>>
notSuiteVars == <<apiVars, assertVars, formVars, waitVars, genVars, dateVars, pageVars, calendarVars, panelVars>>
notPageVars == <<apiVars, assertVars, formVars, waitVars, genVars, dateVars, suiteVars, calendarVars, panelVars>>
notCalendarVars ==
    <<apiVars, assertVars, formVars, waitVars, genVars, dateVars, suiteVars, pageVars,
      panelVars>>
notPanelVars ==
    <<apiVars, assertVars, formVars, waitVars, genVars, dateVars, suiteVars, pageVars,
      calendarVars>>

(***************************************************************************)
(* Bounds of the model                                                     *)
(***************************************************************************)
MaxContexts == 2
MaxDisposeCalls == 2
MaxRequests == 2
MaxNow == 4
MaxDuration == 3
MaxExpected == 2
MaxEmptyFields == 1
TickMs == 2500
MaxElapsed == 7500
RandomSteps == 200
FirstYear == 2024
YearSpan == 3
MaxStride == 2
MaxOrderNumbers == 2
FirstDay == 24
DaySpan == 13
MaxRows == 2
FirstMonth == 10
MonthSpan == 1
MaxCalendarOps == 6

\* no form operation is in use
FormIdle ==
    /\ formOp = "none"
    /\ formData = <<>>
    /\ formStatus = "idle"
    /\ formPc = [phase |-> 0, step |-> 0]
    /\ fields = <<>>
    /\ uiLog = <<>>

\* no wait primitive is in use
WaitIdle ==
    /\ waitCall = [fn |-> "none"]
    /\ defaultTimeout = 0
    /\ element = "absent"
    /\ waitElapsed = 0
    /\ waitStatus = "idle"
    /\ waitOutcome = "none"
    /\ waitValue = "none"

\* getNextBusinessDay is not in use
DateIdle ==
    /\ today = [day |-> 0, hour |-> 0, offset |-> 0]
    /\ dateCall = [fn |-> "idle"]

\* the repair-order API suite is not running
SuiteIdle ==
    /\ createdOrderId = [type |-> "idle", v |-> "idle"]
    /\ suiteLog = <<>>

\* no list page is open
PageIdle ==
    /\ page = [table |-> FALSE]
    /\ lastQuery = [op |-> "idle"]
    /\ prevQuery = [op |-> "idle"]

\* no calendar view is open
CalendarIdle ==
    /\ calMonth = 0
    /\ calLog = <<>>

\* no details panel is in use
PanelIdle ==
    /\ panelOp = "none"
    /\ panel = "absent"
    /\ panelPc = "idle"
    /\ panelElapsed = 0
    /\ panelSeen = "none"
    /\ panelReshown = FALSE
    /\ panelOpen = "none"

\* no generator is in use
GenIdle ==
    /\ currentYear = FirstYear
    /\ randomDraw = 0
    /\ randomStride = 0
    /\ orderNumbers = <<>>
    /\ genCall = [fn |-> "idle"]

(***************************************************************************)
(* DmsApiClient                                                            *)
(***************************************************************************)
NoRequest == [method |-> "none"]
NoData == [none |-> TRUE]
NullContext == 0

NotInitializedMessage ==
    "API context not initialized. Call init() before making requests."

\* apiTestData.auth: the configuration read by the constructor
ConfiguredBaseUrl == "https://api.example-dms.com/v1"
ConfiguredToken == "default-test-token"

\* the inputs the test suites pass to the client
OrderIds == {"RO-2024-001", "RO-9999-999"}
AppointmentIds == {"APT-2024-001"}
Payloads ==
    { [status |-> "Completed"],
      [customerName |-> "API Test Customer", vehicleVin |-> "1HGCM82633A123456"] }
Credentials ==
    { [username |-> "test.user@example.com", password |-> "password123"],
      [username |-> "invalid@example.com", password |-> "wrongpassword"] }
FilterSets == { <<>>, <<<<"status", "Pending">>>> }
Endpoints == {"/health"}
Statuses == {200, 401, 404}

\* new URLSearchParams(filters).toString(): key=value pairs joined by "&"
RECURSIVE QueryString(_)
QueryString(filters) ==
    IF filters = <<>> THEN <<>>
    ELSE LET head == <<filters[1][1], "=", filters[1][2]>>
             rest == QueryString(Tail(filters))
         IN  IF rest = <<>> THEN head ELSE head \o <<"&">> \o rest

Req_NoData(method, path, data) == [method |-> method, path |-> path, data |-> NoData]

Req(method, path, data) == [method |-> method, path |-> path, data |-> data]

\* what the library may answer to a request: a response, or a failure of its own
LibraryOutcomes ==
    { [kind |-> "returned", value |-> s] : s \in Statuses }
        \cup { [kind |-> "threw", value |-> "request failed"] }

ApiInitial ==
    /\ apiContext = NullContext
    /\ baseURL = ConfiguredBaseUrl
    /\ authToken = ConfiguredToken
    /\ contexts = <<>>
    /\ sent = 0
    /\ lastRequest = NoRequest
    /\ apiResult = [op |-> "constructor", kind |-> "returned", value |-> "void"]

\* init(): the assignment to this.apiContext happens only when newContext resolves
NewContextOutcomes == {"resolved", "rejected"}

InitContext(outcome) ==
    /\ Len(contexts) < MaxContexts
    /\ IF outcome = "resolved"
       THEN /\ contexts' = Append(contexts,
                    [baseURL |-> baseURL,
                     authorization |-> <<"Bearer ", authToken>>,
                     disposeCalls |-> 0])
            /\ apiContext' = Len(contexts) + 1
            /\ apiResult' = [op |-> "init", kind |-> "returned", value |-> "void"]
       ELSE /\ UNCHANGED <<contexts, apiContext>>
            /\ apiResult' = [op |-> "init", kind |-> "threw", value |-> "newContext failed"]
    /\ UNCHANGED <<baseURL, authToken, sent, lastRequest>>
    /\ UNCHANGED notApiVars

ApiInit == \E outcome \in NewContextOutcomes : InitContext(outcome)

DisposeContext_NoGuard ==
    /\ IF apiContext # NullContext
       THEN /\ contexts[apiContext].disposeCalls < MaxDisposeCalls
            /\ contexts' = [contexts EXCEPT ![apiContext].disposeCalls = @ + 1]
            /\ apiResult' = [op |-> "dispose", kind |-> "returned", value |-> "void"]
       ELSE /\ UNCHANGED contexts
            /\ apiResult' = [op |-> "dispose", kind |-> "threw", value |-> "TypeError"]
    /\ UNCHANGED <<apiContext, baseURL, authToken, sent, lastRequest>>
    /\ UNCHANGED notApiVars

DisposeContext_Reset ==
    /\ IF apiContext # NullContext
       THEN /\ contexts[apiContext].disposeCalls < MaxDisposeCalls
            /\ contexts' = [contexts EXCEPT ![apiContext].disposeCalls = @ + 1]
       ELSE UNCHANGED contexts
    /\ apiContext' = NullContext
    /\ apiResult' = [op |-> "dispose", kind |-> "returned", value |-> "void"]
    /\ UNCHANGED <<baseURL, authToken, sent, lastRequest>>
    /\ UNCHANGED notApiVars

\* dispose(): disposes the stored context when there is one; the field is kept
DisposeContext ==
    /\ IF apiContext # NullContext
       THEN /\ contexts[apiContext].disposeCalls < MaxDisposeCalls
            /\ contexts' = [contexts EXCEPT ![apiContext].disposeCalls = @ + 1]
       ELSE UNCHANGED contexts
    /\ apiResult' = [op |-> "dispose", kind |-> "returned", value |-> "void"]
    /\ UNCHANGED <<apiContext, baseURL, authToken, sent, lastRequest>>
    /\ UNCHANGED notApiVars

ApiDispose == DisposeContext

GetContextPasses_NoGuard == TRUE

\* getContext(): TRUE when the guard lets the call through
GetContextPasses == apiContext # NullContext

TokenAfter_StoreLogin(op, outcome) ==
    IF op = "authenticate" /\ outcome.kind = "returned" /\ outcome.value = 200
    THEN "token-from-login"
    ELSE authToken

\* this.authToken after a request method that the library answered with
\* `outcome`: no request method assigns the field
TokenAfter(op, outcome) == authToken

\* a request method: const context = this.getContext(); return await context.<verb>(...)
Call(op, args, req) ==
    /\ IF GetContextPasses
       THEN /\ sent < MaxRequests
            /\ sent' = sent + 1
            /\ lastRequest' = [ctx |-> apiContext, method |-> req.method,
                                path |-> req.path, data |-> req.data]
            /\ \E o \in LibraryOutcomes :
                   /\ apiResult' = [op |-> op, args |-> args,
                                    kind |-> o.kind, value |-> o.value]
                   /\ authToken' = TokenAfter(op, o)
       ELSE /\ apiResult' = [op |-> op, args |-> args,
                             kind |-> "threw", value |-> NotInitializedMessage]
            /\ UNCHANGED <<sent, lastRequest, authToken>>
    /\ UNCHANGED <<apiContext, baseURL, contexts>>
    /\ UNCHANGED notApiVars

GetRepairOrders == Call("getRepairOrders", <<>>, Req("GET", <<"/repair-orders">>, NoData))
GetRepairOrderById ==
    \E id \in OrderIds :
        Call("getRepairOrderById", <<id>>, Req("GET", <<"/repair-orders/", id>>, NoData))
CreateRepairOrderApi ==
    \E d \in Payloads : Call("createRepairOrder", <<d>>, Req("POST", <<"/repair-orders">>, d))
UpdateRepairOrder ==
    \E id \in OrderIds, d \in Payloads :
        Call("updateRepairOrder", <<id, d>>, Req("PATCH", <<"/repair-orders/", id>>, d))
DeleteRepairOrder ==
    \E id \in OrderIds :
        Call("deleteRepairOrder", <<id>>, Req("DELETE", <<"/repair-orders/", id>>, NoData))
SearchRepairOrders ==
    \E f \in FilterSets :
        Call("searchRepairOrders", <<f>>,
             Req("GET", <<"/repair-orders?">> \o QueryString(f), NoData))
GetAppointments == Call("getAppointments", <<>>, Req("GET", <<"/appointments">>, NoData))
GetAppointmentById ==
    \E id \in AppointmentIds :
        Call("getAppointmentById", <<id>>, Req("GET", <<"/appointments/", id>>, NoData))
CreateAppointment ==
    \E d \in Payloads : Call("createAppointment", <<d>>, Req("POST", <<"/appointments">>, d))
UpdateAppointment ==
    \E id \in AppointmentIds, d \in Payloads :
        Call("updateAppointment", <<id, d>>, Req("PATCH", <<"/appointments/", id>>, d))
CancelAppointment ==
    \E id \in AppointmentIds :
        Call("cancelAppointment", <<id>>, Req("DELETE", <<"/appointments/", id>>, NoData))
Authenticate ==
    \E c \in Credentials :
        Call("authenticate", <<c.username, c.password>>,
             Req("POST", <<"/auth/login">>,
                 [username |-> c.username, password |-> c.password]))
ValidateToken == Call("validateToken", <<>>, Req("GET", <<"/auth/validate">>, NoData))
GenericGet == \E e \in Endpoints : Call("get", <<e>>, Req("GET", <<e>>, NoData))
GenericPost ==
    \E e \in Endpoints, d \in Payloads : Call("post", <<e, d>>, Req("POST", <<e>>, d))
GenericPatch ==
    \E e \in Endpoints, d \in Payloads : Call("patch", <<e, d>>, Req("PATCH", <<e>>, d))
GenericDelete == \E e \in Endpoints : Call("delete", <<e>>, Req("DELETE", <<e>>, NoData))

RequestOps ==
    { "getRepairOrders", "getRepairOrderById", "createRepairOrder",
      "updateRepairOrder", "deleteRepairOrder", "searchRepairOrders",
      "getAppointments", "getAppointmentById", "createAppointment",
      "updateAppointment", "cancelAppointment", "authenticate", "validateToken",
      "get", "post", "patch", "delete" }

NextApi ==
    \/ ApiInit
    \/ ApiDispose
    \/ GetRepairOrders
    \/ GetRepairOrderById
    \/ CreateRepairOrderApi
    \/ UpdateRepairOrder
    \/ DeleteRepairOrder
    \/ SearchRepairOrders
    \/ GetAppointments
    \/ GetAppointmentById
    \/ CreateAppointment
    \/ UpdateAppointment
    \/ CancelAppointment
    \/ Authenticate
    \/ ValidateToken
    \/ GenericGet
    \/ GenericPost
    \/ GenericPatch
    \/ GenericDelete

\* no assertion helper is in use
AssertIdle ==
    /\ now = 0
    /\ assertInput = [fn |-> "none"]
    /\ assertCall = [fn |-> "none"]
    /\ assertPrev = [fn |-> "none"]

(***************************************************************************)
(* Specification of the API client: the lifecycle and the request methods  *)
(***************************************************************************)
ApiIdle == ApiInitial

InitApi ==
    /\ ApiInitial
    /\ AssertIdle
    /\ FormIdle
    /\ WaitIdle
    /\ GenIdle
    /\ DateIdle
    /\ SuiteIdle
    /\ PageIdle
    /\ CalendarIdle
    /\ PanelIdle

SpecApi == InitApi /\ [][NextApi]_vars

\* C1: a request operation called while this.apiContext is still null (init()
\* has not completed) throws the not-initialized error and hands no HTTP
\* request to any context; it neither returns a response nor does nothing.
C1_NotInitializedFails ==
    [][ (apiContext = NullContext /\ apiResult'.op \in RequestOps)
            => /\ apiResult'.kind = "threw"
               /\ apiResult'.value = NotInitializedMessage
               /\ sent' = sent
               /\ lastRequest' = lastRequest ]_vars

\* a request operation was called before any init() completed, and it threw
C1_Witness ==
    /\ apiContext = NullContext
    /\ apiResult.op = "getRepairOrders"
    /\ apiResult.kind = "threw"
    /\ sent = 0

\* C2 (as claimed): every context created by init() is disposed exactly once:
\* no context receives two dispose() calls, and a context the client no longer
\* holds (a later init() replaced it) has received exactly one.
C2_DisposedExactlyOnce ==
    \A i \in DOMAIN contexts :
        /\ contexts[i].disposeCalls <= 1
        /\ (i # apiContext => contexts[i].disposeCalls = 1)

\* C27: dispose() on a client whose init() never completed (never called, or
\* failed) returns without throwing, touches no context and leaves the client
\* uninitialised; a request made after it still throws the not-initialized
\* error and sends nothing.
C27_DisposeBeforeInit ==
    [][ /\ (apiContext = NullContext /\ apiResult'.op = "dispose")
            => /\ apiResult'.kind = "returned"
               /\ apiContext' = NullContext
               /\ contexts' = contexts
               /\ sent' = sent
               /\ lastRequest' = lastRequest
        /\ (apiContext = NullContext /\ apiResult.op = "dispose"
              /\ apiResult'.op \in RequestOps)
            => /\ apiResult'.kind = "threw"
               /\ apiResult'.value = NotInitializedMessage
               /\ sent' = sent ]_vars

\* init() failed, dispose() was then called and returned: no context exists
\* and the client is still uninitialised
C27_Witness ==
    /\ apiContext = NullContext
    /\ contexts = <<>>
    /\ apiResult.op = "dispose"
    /\ apiResult.kind = "returned"

\* C28: dispose() keeps the reference to the context: after init() and
\* dispose() the field is still set, so a later request passes the guard and
\* is handed to the context that has already been disposed.
C28_DisposeKeepsContext ==
    [][ /\ apiResult'.op = "dispose" => apiContext' = apiContext
        /\ (apiContext # NullContext /\ apiResult.op = "dispose"
              /\ apiResult'.op \in RequestOps)
            => /\ contexts[apiContext].disposeCalls >= 1
               /\ sent' = sent + 1
               /\ lastRequest'.ctx = apiContext
               /\ ~(apiResult'.kind = "threw"
                     /\ apiResult'.value = NotInitializedMessage) ]_vars

\* a request was handed to the stored context after that context had been
\* disposed, and the library answered it
C28_Witness ==
    /\ apiContext # NullContext
    /\ contexts[apiContext].disposeCalls >= 1
    /\ apiResult.op \in RequestOps
    /\ apiResult.kind = "returned"
    /\ lastRequest.ctx = apiContext
    /\ sent >= 1

\* C15: the token and the base URL are those read at construction and no
\* step changes them; an authenticate(username, password) call on an
\* initialised client hands exactly one POST /auth/login to the context,
\* whatever the response (no retry), and leaves the stored token, the base
\* URL, the request context and its headers as they were.
C15_AuthenticateFrame ==
    [][ /\ authToken' = authToken
        /\ baseURL' = baseURL
        /\ (apiResult'.op = "authenticate" /\ apiContext # NullContext)
               => /\ sent' = sent + 1
                  /\ lastRequest'.method = "POST"
                  /\ lastRequest'.path = <<"/auth/login">>
                  /\ lastRequest'.data = [username |-> apiResult'.args[1],
                                          password |-> apiResult'.args[2]]
                  /\ apiContext' = apiContext
                  /\ contexts' = contexts ]_vars

\* a login was accepted with status 200, and the client still holds the
\* configured token
C15_Witness ==
    /\ apiResult.op = "authenticate"
    /\ apiResult.kind = "returned"
    /\ apiResult.value = 200
    /\ apiContext # NullContext
    /\ authToken = ConfiguredToken
    /\ lastRequest.path = <<"/auth/login">>

DigitChars == <<"0", "1", "2", "3", "4", "5", "6", "7", "8", "9">>

\* Number.prototype.toString() of a non-negative integer
RECURSIVE NatToString(_)
NatToString(n) ==
    IF n < 10 THEN <<DigitChars[n + 1]>>
    ELSE Append(NatToString(n \div 10), DigitChars[(n % 10) + 1])

\* Number.prototype.toString() of an integer
NumberToString(n) == IF n < 0 THEN <<"-">> \o NatToString(-n) ELSE NatToString(n)

\* s occurs in t as a contiguous piece
Contains(t, s) ==
    \E i \in 0..(Len(t) - Len(s)) : SubSeq(t, i + 1, i + Len(s)) = s

Returned == [kind |-> "returned", message |-> <<>>]
Threw(message) == [kind |-> "threw", message |-> message]

(***************************************************************************)
(* assertStatus(response, expectedStatus)                                  *)
(***************************************************************************)
AssertStatusResult_Bare(response, expectedStatus) ==
    IF response.status # expectedStatus
    THEN Threw(<<"Assertion failed">>)
    ELSE Returned

AssertStatusResult(response, expectedStatus) ==
    LET actualStatus == response.status
    IN  IF actualStatus # expectedStatus
        THEN Threw(<<"Expected status ">> \o NumberToString(expectedStatus)
                       \o <<", but got ">> \o NumberToString(actualStatus))
        ELSE Returned

Responses == { [status |-> s] : s \in Statuses }

AssertStatusInputs ==
    { [fn |-> "assertStatus", response |-> r, expected |-> e] :
        r \in Responses, e \in Statuses }

AssertStatus ==
    /\ assertInput.fn = "assertStatus"
    /\ assertPrev.fn = "none"
    /\ assertPrev' = assertCall
    /\ assertCall' = [fn |-> "assertStatus", response |-> assertInput.response,
                      expected |-> assertInput.expected,
                      result |-> AssertStatusResult(assertInput.response,
                                                    assertInput.expected)]
    /\ UNCHANGED <<now, assertInput>>
    /\ UNCHANGED notAssertVars

(***************************************************************************)
(* assertResponseContains(responseBody, expectedData)                      *)
(* A JS value is a record [type, v]; v is what a template literal prints.  *)
(***************************************************************************)
Str(s) == [type |-> "string", v |-> s]
Null == [type |-> "object", v |-> "null"]
Undefined == [type |-> "undefined", v |-> "undefined"]

BodyKeys == {"id", "status", "notes"}
BodyValues == {Str("Completed"), Str("Pending"), Null}
ExpectedValues == BodyValues \cup {Undefined}

\* the response bodies: objects over some of the keys
Bodies == UNION { [ks -> BodyValues] : ks \in SUBSET BodyKeys }

\* Object.entries(expectedData): the own keys in insertion order, each once
ExpectedEntries ==
    { e \in UNION { [1..n -> BodyKeys \X ExpectedValues] : n \in 0..MaxExpected } :
        \A i, j \in DOMAIN e : i # j => e[i][1] # e[j][1] }

\* responseBody[key]
Lookup(responseBody, key) ==
    IF key \in DOMAIN responseBody THEN responseBody[key] ELSE Undefined

\* the for-of loop: the index of the first entry whose value differs, 0 if none
RECURSIVE FirstMismatch(_, _, _)
FirstMismatch(responseBody, entries, i) ==
    IF i > Len(entries) THEN 0
    ELSE IF Lookup(responseBody, entries[i][1]) # entries[i][2] THEN i
    ELSE FirstMismatch(responseBody, entries, i + 1)

AssertResponseContainsResult_WholeBody(responseBody, entries) ==
    IF \/ FirstMismatch(responseBody, entries, 1) # 0
       \/ DOMAIN responseBody # { entries[i][1] : i \in DOMAIN entries }
    THEN Threw(<<"Expected body to equal expected data">>)
    ELSE Returned

AssertResponseContainsResult(responseBody, entries) ==
    LET i == FirstMismatch(responseBody, entries, 1)
    IN  IF i # 0
        THEN Threw(<<"Expected ", entries[i][1], " to be \"", entries[i][2].v,
                     "\", but got \"", Lookup(responseBody, entries[i][1]).v, "\"">>)
        ELSE Returned

BodyAfter_Strip(responseBody, entries) ==
    [k \in DOMAIN responseBody \ { entries[i][1] : i \in DOMAIN entries } |->
        responseBody[k]]

\* the caller's responseBody object after the call: the helper only reads it
BodyAfter(responseBody, entries) == responseBody

AssertResponseContainsInputs ==
    { [fn |-> "assertResponseContains", body |-> b, expected |-> e] :
        b \in Bodies, e \in ExpectedEntries }

AssertResponseContains ==
    /\ assertInput.fn = "assertResponseContains"
    /\ assertPrev.fn = "none"
    /\ assertPrev' = assertCall
    /\ assertCall' = [fn |-> "assertResponseContains", body |-> assertInput.body,
                      expected |-> assertInput.expected,
                      result |-> AssertResponseContainsResult(assertInput.body,
                                                              assertInput.expected)]
    /\ assertInput' = [assertInput EXCEPT
                           !.body = BodyAfter(assertInput.body, assertInput.expected)]
    /\ UNCHANGED now
    /\ UNCHANGED notAssertVars

(***************************************************************************)
(* assertResponseTime(startTime, maxDuration)                              *)
(***************************************************************************)
AssertResponseTimeResult_AtLeast(current, startTime, maxDuration) ==
    LET duration == current - startTime
    IN  IF duration >= maxDuration
        THEN Threw(<<"Response took ">> \o NumberToString(duration)
                       \o <<"ms, expected under ">> \o NumberToString(maxDuration) \o <<"ms">>)
        ELSE Returned

AssertResponseTimeResult(current, startTime, maxDuration) ==
    LET duration == current - startTime
    IN  IF duration > maxDuration
        THEN Threw(<<"Response took ">> \o NumberToString(duration)
                       \o <<"ms, expected under ">> \o NumberToString(maxDuration) \o <<"ms">>)
        ELSE Returned

AssertResponseTimeInputs ==
    { [fn |-> "assertResponseTime", startTime |-> s, maxDuration |-> m] :
        s \in 0..MaxNow, m \in 0..MaxDuration }

\* Date.now() is read when the helper is called
AssertResponseTime ==
    /\ assertInput.fn = "assertResponseTime"
    /\ assertPrev.fn = "none"
    /\ assertPrev' = assertCall
    /\ assertCall' = [fn |-> "assertResponseTime", startTime |-> assertInput.startTime,
                      maxDuration |-> assertInput.maxDuration, at |-> now,
                      result |-> AssertResponseTimeResult(now, assertInput.startTime,
                                                          assertInput.maxDuration)]
    /\ UNCHANGED <<now, assertInput>>
    /\ UNCHANGED notAssertVars

\* time passes between the test taking its start time and calling the
\* helper, and between two calls of the helper
Tick ==
    /\ assertInput.fn = "assertResponseTime"
    /\ assertPrev.fn = "none"
    /\ now < MaxNow
    /\ now' = now + 1
    /\ UNCHANGED <<assertInput, assertCall, assertPrev>>
    /\ UNCHANGED notAssertVars

NextAssert ==
    \/ AssertStatus
    \/ AssertResponseContains
    \/ AssertResponseTime
    \/ Tick

AssertInputs ==
    AssertStatusInputs \cup AssertResponseContainsInputs \cup AssertResponseTimeInputs

AssertInitial ==
    /\ now = 0
    /\ assertInput \in AssertInputs
    /\ assertCall = [fn |-> "none"]
    /\ assertPrev = [fn |-> "none"]

InitAssert ==
    /\ AssertInitial
    /\ ApiIdle
    /\ FormIdle
    /\ WaitIdle
    /\ GenIdle
    /\ DateIdle
    /\ SuiteIdle
    /\ PageIdle
    /\ CalendarIdle
    /\ PanelIdle

SpecAssert == InitAssert /\ [][NextAssert]_vars

\* C3: assertStatus throws exactly when response.status() differs from the
\* expected status; the error message then contains the expected and the
\* actual status code; with equal codes it returns normally.
C3_AssertStatus ==
    assertCall.fn = "assertStatus" =>
        LET actual == assertCall.response.status
            expected == assertCall.expected
            r == assertCall.result
        IN  /\ (r.kind = "threw") <=> (actual # expected)
            /\ r.kind = "threw" =>
                   /\ Contains(r.message, NumberToString(expected))
                   /\ Contains(r.message, NumberToString(actual))
            /\ actual = expected => r = Returned

\* assertStatus was called with a 404 response where 200 was expected, and threw
C3_Witness ==
    /\ assertCall.fn = "assertStatus"
    /\ assertCall.response.status = 404
    /\ assertCall.expected = 200
    /\ assertCall.result.kind = "threw"

\* the body field named by an expected entry has the expected value
FieldMatches(body, entry) ==
    IF entry[1] \in DOMAIN body THEN body[entry[1]] = entry[2]
    ELSE entry[2] = Undefined

\* two bodies agree on every key the expected data names
AgreeOnExpected(b1, b2, entries) ==
    \A i \in DOMAIN entries :
        LET k == entries[i][1]
        IN  /\ (k \in DOMAIN b1) <=> (k \in DOMAIN b2)
            /\ k \in DOMAIN b1 => b1[k] = b2[k]

\* C4: assertResponseContains throws exactly when some key of the expected
\* data has a different value in the body, and its outcome is the same for
\* every body that agrees with this one on the expected keys, whatever fields
\* are added, removed or changed elsewhere.
C4_SubsetFieldEquality ==
    assertCall.fn = "assertResponseContains" =>
        LET body == assertCall.body
            entries == assertCall.expected
            r == assertCall.result
        IN  /\ (r.kind = "threw") <=>
                   (\E i \in DOMAIN entries : ~FieldMatches(body, entries[i]))
            /\ \A other \in Bodies :
                   AgreeOnExpected(body, other, entries) =>
                       AssertResponseContainsResult(other, entries).kind = r.kind

\* the helper passed on a body that has a field the expected data does not name
C4_Witness ==
    /\ assertCall.fn = "assertResponseContains"
    /\ assertCall.result.kind = "returned"
    /\ Len(assertCall.expected) >= 1
    /\ \E k \in DOMAIN assertCall.body :
           \A i \in DOMAIN assertCall.expected : assertCall.expected[i][1] # k

\* C5: assertResponseTime throws exactly when Date.now() at the call minus the
\* supplied start time exceeds maxDuration; an elapsed time equal to maxDuration
\* passes; the error message carries the measured duration and the bound.
C5_ResponseTimeBound ==
    assertCall.fn = "assertResponseTime" =>
        LET elapsed == assertCall.at - assertCall.startTime
            bound == assertCall.maxDuration
            r == assertCall.result
        IN  /\ (r.kind = "threw") <=> (elapsed > bound)
            /\ elapsed = bound => r = Returned
            /\ r.kind = "threw" =>
                   /\ Contains(r.message, NumberToString(elapsed))
                   /\ Contains(r.message, NumberToString(bound))

\* the helper passed with a positive elapsed time exactly equal to the bound
C5_Witness ==
    /\ assertCall.fn = "assertResponseTime"
    /\ assertCall.at - assertCall.startTime = assertCall.maxDuration
    /\ assertCall.maxDuration > 0
    /\ assertCall.result.kind = "returned"

\* C22 (as claimed): two calls of an assertion helper with the same arguments
\* end the same way: both return or both throw the same error.
C22_SameArgumentsSameOutcome ==
    assertPrev.fn # "none" => assertPrev.result = assertCall.result

\* C22 (amended): no helper changes its arguments; two calls of assertStatus
\* or of assertResponseContains with the same arguments end the same way; two
\* calls of assertResponseTime with the same arguments end the same way when
\* Date.now() is the same at both, its outcome being a function of the
\* arguments and of the clock.
C22_PureUpToClock ==
    /\ [][assertInput' = assertInput]_vars
    /\ []((assertPrev.fn \in {"assertStatus", "assertResponseContains"})
              => assertPrev.result = assertCall.result)
    /\ []((assertPrev.fn = "assertResponseTime" /\ assertPrev.at = assertCall.at)
              => assertPrev.result = assertCall.result)

\* assertResponseTime passed, and failed when called again later with the
\* same arguments
C22_Witness ==
    /\ assertPrev.fn = "assertResponseTime"
    /\ assertCall.fn = "assertResponseTime"
    /\ assertPrev.result.kind = "returned"
    /\ assertCall.result.kind = "threw"
    /\ assertInput.startTime = assertCall.startTime

(***************************************************************************)
(* Form operations of the page objects                                     *)
(* RepairOrdersPage: clickCreateNew, fillRepairOrderForm, saveForm,        *)
(*                   createRepairOrder                                     *)
(* AppointmentsPage: clickScheduleNew, fillAppointmentForm,                *)
(*                   saveAppointment, scheduleAppointment                  *)
(* Every await is one step; a step whose interaction fails throws, and the *)
(* error leaves the operation.                                             *)
(***************************************************************************)
RepairOrderFields ==
    <<"customerName", "vehicleVin", "vehicleMake", "vehicleModel",
      "vehicleYear", "description", "estimatedCost", "status">>

AppointmentFields ==
    <<"customerName", "phoneNumber", "email", "serviceType",
      "vehicleVin", "preferredDate", "preferredTime", "notes">>

\* the fields set with selectDropdown; the others are set with fill
DropdownFields == {"status", "serviceType", "preferredTime"}

FormOps ==
    {"fillRepairOrderForm", "createRepairOrder",
     "fillAppointmentForm", "scheduleAppointment"}

FieldsOf(op) ==
    IF op \in {"fillRepairOrderForm", "createRepairOrder"}
    THEN RepairOrderFields ELSE AppointmentFields

FieldSet(op) == { FieldsOf(op)[i] : i \in DOMAIN FieldsOf(op) }

\* the fields the parameter type of the operation requires
RequiredFields(op) ==
    CASE op = "createRepairOrder" -> FieldSet(op) \ {"status"}
      [] op = "scheduleAppointment" -> FieldSet(op) \ {"notes"}
      [] OTHER -> {}

\* the fields the parameter type of the operation allows to be left out
OptionalFields(op) ==
    CASE op = "createRepairOrder" -> {}
      [] op = "scheduleAppointment" -> {"notes"}
      [] OTHER -> FieldSet(op)

OpenButton(op) ==
    IF op = "createRepairOrder" THEN "createNewButton" ELSE "scheduleNewButton"

\* the statements of the operation's body, in program order
CompositePhases_SaveFirst == <<"open", "save", "fill">>

CompositePhases == <<"open", "fill", "save">>

PhasesOf(op) ==
    IF op \in {"createRepairOrder", "scheduleAppointment"}
    THEN CompositePhases ELSE <<"fill">>

FormModalDelay == 500

ShouldFill_Always(data, f) == TRUE

ShouldFill_Present(data, f) == f \in DOMAIN data

\* if (orderData.<field>) : the field is present and its value is truthy
ShouldFill(data, f) == f \in DOMAIN data /\ data[f] # ""

\* orderData.<field> as written to the page
PayloadValue(data, f) == IF f \in DOMAIN data THEN data[f] ELSE ""

\* the index of the first field from i on that the fill method writes, 0 if none
RECURSIVE NextFill(_, _, _)
NextFill(op, data, i) ==
    IF i > Len(FieldsOf(op)) THEN 0
    ELSE IF ShouldFill(data, FieldsOf(op)[i]) THEN i
    ELSE NextFill(op, data, i + 1)

\* the first await from the start of statement ph on; phase 0 when none remains
RECURSIVE Enter(_, _, _)
Enter(op, data, ph) ==
    IF ph > Len(PhasesOf(op)) THEN [phase |-> 0, step |-> 0]
    ELSE IF PhasesOf(op)[ph] = "fill"
         THEN IF NextFill(op, data, 1) = 0 THEN Enter(op, data, ph + 1)
              ELSE [phase |-> ph, step |-> NextFill(op, data, 1)]
    ELSE [phase |-> ph, step |-> 1]

\* the next await after the one at pc has resolved
Advance(op, data, pc) ==
    IF PhasesOf(op)[pc.phase] = "fill"
    THEN IF NextFill(op, data, pc.step + 1) = 0 THEN Enter(op, data, pc.phase + 1)
         ELSE [phase |-> pc.phase, step |-> NextFill(op, data, pc.step + 1)]
    ELSE IF pc.step = 1 THEN [phase |-> pc.phase, step |-> 2]
    ELSE Enter(op, data, pc.phase + 1)

StepOutcomes == {"resolved", "rejected"}

Interaction(action, target, value, outcome) ==
    [action |-> action, target |-> target, value |-> value, outcome |-> outcome]

Resume_Swallow(outcome) ==
    LET pc == Advance(formOp, formData, formPc)
    IN  /\ formPc' = pc
        /\ formStatus' = IF pc.phase = 0 THEN "returned" ELSE "running"

\* the operation resumes after an await, or the rejection leaves it
Resume(outcome) ==
    IF outcome = "rejected"
    THEN /\ formStatus' = "threw"
         /\ formPc' = formPc
    ELSE LET pc == Advance(formOp, formData, formPc)
         IN  /\ formPc' = pc
             /\ formStatus' = IF pc.phase = 0 THEN "returned" ELSE "running"

AtPhase(name, step) ==
    /\ formStatus = "running"
    /\ formPc.phase # 0
    /\ PhasesOf(formOp)[formPc.phase] = name
    /\ step = 0 \/ formPc.step = step

\* the test calls the operation: it runs up to its first await
CallFormOperation ==
    /\ formStatus = "ready"
    /\ LET pc == Enter(formOp, formData, 1)
       IN  /\ formPc' = pc
           /\ formStatus' = IF pc.phase = 0 THEN "returned" ELSE "running"
    /\ UNCHANGED <<formOp, formData, fields, uiLog>>
    /\ UNCHANGED notFormVars

\* clickCreateNew / clickScheduleNew: await this.click(<button>)
ClickOpenForm ==
    /\ AtPhase("open", 1)
    /\ \E outcome \in StepOutcomes :
          /\ uiLog' = Append(uiLog, Interaction("click", OpenButton(formOp), "", outcome))
          /\ Resume(outcome)
    /\ UNCHANGED <<formOp, formData, fields>>
    /\ UNCHANGED notFormVars

\* clickCreateNew / clickScheduleNew: await this.wait(500)
WaitForFormModal ==
    /\ AtPhase("open", 2)
    /\ \E outcome \in StepOutcomes :
          /\ uiLog' = Append(uiLog,
                 Interaction("waitForTimeout", "page", NumberToString(FormModalDelay), outcome))
          /\ Resume(outcome)
    /\ UNCHANGED <<formOp, formData, fields>>
    /\ UNCHANGED notFormVars

\* fillRepairOrderForm / fillAppointmentForm: the fill or selectDropdown of one field
FillField ==
    /\ AtPhase("fill", 0)
    /\ LET f == FieldsOf(formOp)[formPc.step]
           action == IF f \in DropdownFields THEN "selectOption" ELSE "fill"
       IN  \E outcome \in StepOutcomes :
              /\ uiLog' = Append(uiLog,
                     Interaction(action, f, PayloadValue(formData, f), outcome))
              /\ fields' = IF outcome = "resolved"
                           THEN [fields EXCEPT ![f] = PayloadValue(formData, f)]
                           ELSE fields
              /\ Resume(outcome)
    /\ UNCHANGED <<formOp, formData>>
    /\ UNCHANGED notFormVars

\* saveForm / saveAppointment: await this.click(this.saveButton)
ClickSave ==
    /\ AtPhase("save", 1)
    /\ \E outcome \in StepOutcomes :
          /\ uiLog' = Append(uiLog, Interaction("click", "saveButton", "", outcome))
          /\ Resume(outcome)
    /\ UNCHANGED <<formOp, formData, fields>>
    /\ UNCHANGED notFormVars

\* saveForm / saveAppointment: await this.waitForPageLoad()
WaitForPageLoad ==
    /\ AtPhase("save", 2)
    /\ \E outcome \in StepOutcomes :
          /\ uiLog' = Append(uiLog,
                 Interaction("waitForLoadState", "page", "networkidle", outcome))
          /\ Resume(outcome)
    /\ UNCHANGED <<formOp, formData, fields>>
    /\ UNCHANGED notFormVars

NextForm ==
    \/ CallFormOperation
    \/ ClickOpenForm
    \/ WaitForFormModal
    \/ FillField
    \/ ClickSave
    \/ WaitForPageLoad

\* the strings a test supplies for a field: the empty string or a text
FieldStrings == {"", "text"}

\* what every field of the form holds before the operation is called
PriorValue == "prior"

\* the payloads an operation can be called with
PayloadsOf(op) ==
    { d \in UNION { [RequiredFields(op) \cup o -> FieldStrings] :
                        o \in SUBSET OptionalFields(op) } :
        Cardinality({ f \in DOMAIN d : d[f] = "" }) <= MaxEmptyFields }

PriorFields(op) == [f \in FieldSet(op) |-> PriorValue]

FormInitial ==
    /\ formOp \in FormOps
    /\ formData \in PayloadsOf(formOp)
    /\ formStatus = "ready"
    /\ formPc = [phase |-> 0, step |-> 0]
    /\ fields = PriorFields(formOp)
    /\ uiLog = <<>>

InitForm ==
    /\ FormInitial
    /\ ApiIdle
    /\ AssertIdle
    /\ WaitIdle
    /\ GenIdle
    /\ DateIdle
    /\ SuiteIdle
    /\ PageIdle
    /\ CalendarIdle
    /\ PanelIdle

SpecForm == InitForm /\ [][NextForm]_vars

\* the interactions of the log that write to form field f
WritesTo(f) ==
    { i \in DOMAIN uiLog :
        uiLog[i].target = f /\ uiLog[i].action \in {"fill", "selectOption", "clear"} }

\* C6: fillRepairOrderForm and fillAppointmentForm (alone or as part of the
\* composite operations) issue no fill, clear or select on a field that is
\* absent from the payload, and the field keeps the value it had before the call.
C6_AbsentFieldsUntouched ==
    formOp \in FormOps =>
        \A f \in FieldSet(formOp) :
            f \notin DOMAIN formData =>
                /\ WritesTo(f) = {}
                /\ fields[f] = PriorValue

\* fillRepairOrderForm returned after being given customerName only: that field
\* was written and the seven absent ones still hold their prior value
C6_Witness ==
    /\ formOp = "fillRepairOrderForm"
    /\ formStatus = "returned"
    /\ DOMAIN formData = {"customerName"}
    /\ fields["customerName"] = "text"
    /\ \A f \in FieldSet(formOp) \ {"customerName"} : fields[f] = PriorValue

\* the fills and selects the payload calls for, in form order
RECURSIVE ExpectedFills(_, _, _)
ExpectedFills(op, data, i) ==
    IF i > Len(FieldsOf(op)) THEN <<>>
    ELSE LET f == FieldsOf(op)[i]
             rest == ExpectedFills(op, data, i + 1)
         IN  IF f \in DOMAIN data /\ data[f] # ""
             THEN <<[action |-> IF f \in DropdownFields THEN "selectOption" ELSE "fill",
                     target |-> f, value |-> data[f]]>> \o rest
             ELSE rest

\* open form, fill the supplied fields, click save, wait for the page to settle
ExpectedComposite(op, data) ==
    <<[action |-> "click", target |-> OpenButton(op), value |-> ""],
      [action |-> "waitForTimeout", target |-> "page", value |-> <<"5", "0", "0">>]>>
    \o ExpectedFills(op, data, 1)
    \o <<[action |-> "click", target |-> "saveButton", value |-> ""],
         [action |-> "waitForLoadState", target |-> "page", value |-> "networkidle"]>>

\* the i-th interaction issued is the expected interaction e
IssuedIs(i, e) ==
    /\ uiLog[i].action = e.action
    /\ uiLog[i].target = e.target
    /\ uiLog[i].value = e.value

SaveClicks ==
    { i \in DOMAIN uiLog : uiLog[i].action = "click" /\ uiLog[i].target = "saveButton" }

\* C7: createRepairOrder and scheduleAppointment issue their interactions in
\* the order open form, fills of the supplied (non-empty) fields in form order,
\* click save, wait for settle: at every moment what has been issued is a prefix
\* of that sequence, every step but the last issued has completed, save is
\* clicked at most once and after every fill, and on normal return the whole
\* sequence has been issued with save clicked exactly once.
C7_CompositeOrder ==
    formOp \in {"createRepairOrder", "scheduleAppointment"} =>
        LET expected == ExpectedComposite(formOp, formData)
        IN  /\ Len(uiLog) <= Len(expected)
            /\ \A i \in DOMAIN uiLog : IssuedIs(i, expected[i])
            /\ \A i \in DOMAIN uiLog : i < Len(uiLog) => uiLog[i].outcome = "resolved"
            /\ Cardinality(SaveClicks) <= 1
            /\ \A i \in SaveClicks :
                   \A j \in DOMAIN uiLog :
                       uiLog[j].action \in {"fill", "selectOption"} => j < i
            /\ formStatus = "returned" =>
                   /\ Len(uiLog) = Len(expected)
                   /\ Cardinality(SaveClicks) = 1
                   /\ uiLog[Len(uiLog)].outcome = "resolved"

\* createRepairOrder returned normally after filling all seven fields
C7_Witness ==
    /\ formOp = "createRepairOrder"
    /\ formStatus = "returned"
    /\ \A f \in DOMAIN formData : formData[f] = "text"
    /\ Len(uiLog) = 11
    /\ uiLog[10].target = "saveButton"

\* C29: a payload field whose value is the empty string is handled like an
\* absent one: no fill or select is issued on it and it keeps its prior
\* value; once the operation has returned, the fields written are exactly
\* those whose payload value is a non-empty string.
C29_EmptyFieldsUntouched ==
    formOp \in FormOps =>
        /\ \A f \in DOMAIN formData :
               formData[f] = "" => WritesTo(f) = {} /\ fields[f] = PriorValue
        /\ formStatus = "returned" =>
               \A f \in FieldSet(formOp) :
                   WritesTo(f) # {} <=> (f \in DOMAIN formData /\ formData[f] # "")

\* fillAppointmentForm returned after being given an empty notes and a
\* phone number: the phone number was written, notes keeps its prior value
C29_Witness ==
    /\ formOp = "fillAppointmentForm"
    /\ formStatus = "returned"
    /\ DOMAIN formData = {"phoneNumber", "notes"}
    /\ formData["notes"] = ""
    /\ fields["notes"] = PriorValue
    /\ fields["phoneNumber"] = "text"
    /\ Len(uiLog) = 1

\* the interactions of the log that were rejected
RejectedSteps == { i \in DOMAIN uiLog : uiLog[i].outcome = "rejected" }

\* C25: when a step of a form operation is rejected the operation throws and
\* is over: the rejected step is the last interaction it issued, nothing is
\* issued or written afterwards, and a composite operation whose open-form
\* or fill step was rejected has never clicked save.
C25_FailedStepAbandons ==
    /\ [](formOp \in FormOps =>
            /\ RejectedSteps # {} <=> formStatus = "threw"
            /\ RejectedSteps \subseteq {Len(uiLog)}
            /\ (\E i \in RejectedSteps : uiLog[i].target # "saveButton"
                                         /\ uiLog[i].action # "waitForLoadState")
                   => SaveClicks = {})
    /\ [][formStatus = "threw" => UNCHANGED <<formStatus, fields, uiLog>>]_vars

\* createRepairOrder threw at the fill of its third field: two fields were
\* written, the others keep their prior value and save was not clicked
C25_Witness ==
    /\ formOp = "createRepairOrder"
    /\ formStatus = "threw"
    /\ Len(uiLog) = 5
    /\ uiLog[5].action = "fill"
    /\ uiLog[5].outcome = "rejected"
    /\ fields[uiLog[4].target] = "text"
    /\ fields[uiLog[5].target] = PriorValue
    /\ SaveClicks = {}

(***************************************************************************)
(* Wait primitives of BasePage: isVisible, waitForElement,                 *)
(* waitForElementToDisappear, each a call of locator.waitFor.              *)
(* locator.waitFor({state, timeout}) resolves when the element is in the   *)
(* state before the timeout has elapsed, rejects with a TimeoutError when  *)
(* the timeout elapses first (a timeout of 0 never elapses), and rejects   *)
(* with another error when the engine cannot wait (page closed, ...).      *)
(* page.waitForLoadState and the requests of an APIRequestContext wait the *)
(* same way, for the network to be idle and for the response.  The runner  *)
(* ends a test that has run for its test timeout, and with it any wait.    *)
(***************************************************************************)
WaitFns ==
    {"isVisible", "waitForElement", "waitForElementToDisappear",
     "waitForPageLoad", "request"}

IsVisibleTimeout == 5000
ShortTimeout == 5000
RequestTimeout == 30000
TestTimeout == 60000

NotGiven == [given |-> FALSE, ms |-> 0]
Given(ms) == [given |-> TRUE, ms |-> ms]

\* the timeout arguments the callers pass: none, or timeouts.short
TimeoutArgs(fn) ==
    IF fn \in {"waitForElement", "waitForElementToDisappear"}
    THEN {NotGiven, Given(ShortTimeout)}
    ELSE {NotGiven}

WaitStateOf_Visible(fn) ==
    CASE fn = "waitForPageLoad" -> "networkidle"
      [] fn = "request" -> "responded"
      [] OTHER -> "visible"

\* the state option passed to locator.waitFor
WaitStateOf(fn) ==
    CASE fn = "waitForElementToDisappear" -> "hidden"
      [] fn = "waitForPageLoad" -> "networkidle"
      [] fn = "request" -> "responded"
      [] OTHER -> "visible"

\* what the thing waited for may be: an element, the network, a response
ConditionsOf(fn) ==
    CASE fn = "waitForPageLoad" -> {"loading", "networkidle"}
      [] fn = "request" -> {"pending", "responded"}
      [] OTHER -> {"absent", "hidden", "visible"}

\* the timeout option in force for the call
TimeoutOf(call, default) ==
    IF call.fn = "isVisible" THEN IsVisibleTimeout
    ELSE IF call.fn = "request" THEN RequestTimeout
    ELSE IF call.timeout.given THEN call.timeout.ms
    ELSE default

\* the element is in the state waited for
InState(el, state) == IF state = "hidden" THEN el # "visible" ELSE el = state

TimedOut(call, default, elapsed) ==
    TimeoutOf(call, default) # 0 /\ elapsed >= TimeoutOf(call, default)

TestTimedOut_Never(elapsed) == FALSE

\* the test has run for the test timeout of the runner's configuration
TestTimedOut(elapsed) == elapsed >= TestTimeout

IsVisibleResult_NoCatch(outcome) ==
    IF outcome = "resolved" THEN [status |-> "returned", value |-> "true"]
    ELSE [status |-> "threw", value |-> outcome]

\* isVisible: try { await waitFor; return true } catch { return false }
IsVisibleResult(outcome) ==
    IF outcome = "resolved" THEN [status |-> "returned", value |-> "true"]
    ELSE [status |-> "returned", value |-> "false"]

WaitForElementResult_Swallow(outcome) == [status |-> "returned", value |-> "void"]

\* waitForElement / waitForElementToDisappear: await locator.waitFor(...)
WaitForElementResult(outcome) ==
    IF outcome = "resolved" THEN [status |-> "returned", value |-> "void"]
    ELSE [status |-> "threw", value |-> outcome]

ResultOf(fn, outcome) ==
    IF fn = "isVisible" THEN IsVisibleResult(outcome) ELSE WaitForElementResult(outcome)

\* locator.waitFor has ended with this outcome: the method returns or throws
Finish(outcome) ==
    /\ waitOutcome' = outcome
    /\ waitStatus' = ResultOf(waitCall.fn, outcome).status
    /\ waitValue' = ResultOf(waitCall.fn, outcome).value
    /\ UNCHANGED <<waitCall, defaultTimeout, element, waitElapsed>>
    /\ UNCHANGED notWaitVars

\* the test calls the method: locator.waitFor starts
CallWait ==
    /\ waitStatus = "ready"
    /\ waitStatus' = "waiting"
    /\ UNCHANGED <<waitCall, defaultTimeout, element, waitElapsed, waitOutcome, waitValue>>
    /\ UNCHANGED notWaitVars

WaitForResolves ==
    /\ waitStatus = "waiting"
    /\ InState(element, WaitStateOf(waitCall.fn))
    /\ ~TimedOut(waitCall, defaultTimeout, waitElapsed)
    /\ Finish("resolved")

WaitForTimesOut ==
    /\ waitStatus = "waiting"
    /\ TimedOut(waitCall, defaultTimeout, waitElapsed)
    /\ Finish("TimeoutError")

WaitForFails ==
    /\ waitStatus = "waiting"
    /\ Finish("Error")

\* the runner ends the test: the pending wait is rejected
TestTimesOut ==
    /\ waitStatus = "waiting"
    /\ TestTimedOut(waitElapsed)
    /\ Finish("TestTimeout")

\* time passes while the wait is pending
TimePasses ==
    /\ waitStatus = "waiting"
    /\ ~TimedOut(waitCall, defaultTimeout, waitElapsed)
    /\ waitElapsed < TestTimeout
    /\ waitElapsed' = waitElapsed + TickMs
    /\ UNCHANGED <<waitCall, defaultTimeout, element, waitStatus, waitOutcome, waitValue>>
    /\ UNCHANGED notWaitVars

\* the page under test shows, hides, adds or removes the element
ElementChanges ==
    /\ waitStatus = "waiting"
    /\ element' \in ConditionsOf(waitCall.fn) \ {element}
    /\ UNCHANGED <<waitCall, defaultTimeout, waitElapsed, waitStatus, waitOutcome, waitValue>>
    /\ UNCHANGED notWaitVars

NextWait ==
    \/ CallWait
    \/ WaitForResolves
    \/ WaitForTimesOut
    \/ WaitForFails
    \/ TestTimesOut
    \/ TimePasses
    \/ ElementChanges

WaitCalls == { [fn |-> fn, timeout |-> t] : fn \in WaitFns, t \in {NotGiven, Given(ShortTimeout)} }

WaitInitial ==
    /\ waitCall \in { c \in WaitCalls : c.timeout \in TimeoutArgs(c.fn) }
    /\ defaultTimeout \in {0, MaxElapsed}
    /\ element \in ConditionsOf(waitCall.fn)
    /\ waitElapsed = 0
    /\ waitStatus = "ready"
    /\ waitOutcome = "none"
    /\ waitValue = "none"

InitWait ==
    /\ WaitInitial
    /\ ApiIdle
    /\ AssertIdle
    /\ FormIdle
    /\ GenIdle
    /\ DateIdle
    /\ SuiteIdle
    /\ PageIdle
    /\ CalendarIdle
    /\ PanelIdle

SpecWait == InitWait /\ [][NextWait]_vars

\* the engine's timers and the runner's test timeout do fire, and time passes
SpecWaitFair ==
    /\ SpecWait
    /\ WF_vars(TimePasses)
    /\ WF_vars(WaitForTimesOut)
    /\ WF_vars(TestTimesOut)

WaitEnded == waitStatus \in {"returned", "threw"}

\* C8: isVisible never throws: whatever way locator.waitFor ends, the method
\* returns a boolean; it returns true exactly when the element was seen visible
\* before the 5000 ms wait elapsed, and false when the wait timed out (element
\* absent or hidden) or failed in any other way.
C8_IsVisibleNeverThrows ==
    (waitCall.fn = "isVisible" /\ waitOutcome # "none") =>
        /\ waitStatus = "returned"
        /\ waitValue \in {"true", "false"}
        /\ (waitValue = "true") <=>
               (waitOutcome = "resolved" /\ element = "visible"
                    /\ waitElapsed < IsVisibleTimeout)
        /\ waitOutcome \in {"TimeoutError", "Error"} => waitValue = "false"

\* isVisible returned false after the wait failed with an error other than a timeout
C8_Witness ==
    /\ waitCall.fn = "isVisible"
    /\ waitOutcome = "Error"
    /\ waitStatus = "returned"
    /\ waitValue = "false"

\* C9: waitForElement and waitForElementToDisappear return normally only if
\* the element was visible (resp. not visible) before the timeout elapsed; when
\* the timeout elapses first they throw the TimeoutError to the caller.
C9_WaitTimeoutPropagates ==
    (waitCall.fn \in {"waitForElement", "waitForElementToDisappear"} /\ WaitEnded) =>
        LET limit == IF waitCall.timeout.given THEN waitCall.timeout.ms ELSE defaultTimeout
            held == IF waitCall.fn = "waitForElement" THEN element = "visible"
                    ELSE element \in {"absent", "hidden"}
        IN  /\ waitStatus = "returned" => (held /\ (limit = 0 \/ waitElapsed < limit))
            /\ (limit # 0 /\ waitElapsed >= limit) =>
                   (waitStatus = "threw" /\ waitValue \in {"TimeoutError", "Error"})
            /\ waitOutcome = "TimeoutError" =>
                   (waitStatus = "threw" /\ waitValue = "TimeoutError")

\* waitForElementToDisappear threw a TimeoutError: the element stayed visible for
\* the whole timeout it was given
C9_Witness ==
    /\ waitCall.fn = "waitForElementToDisappear"
    /\ waitCall.timeout.given
    /\ waitElapsed >= waitCall.timeout.ms
    /\ element = "visible"
    /\ waitStatus = "threw"
    /\ waitValue = "TimeoutError"

\* C21: every blocking wait (for an element, for the page to settle, for an
\* HTTP response) that has started eventually ends: the method returns or
\* throws, and the calling test is never blocked forever.
C21_WaitsEnd == (waitStatus = "waiting") ~> WaitEnded

\* a wait that was given no timeout and has none by default was still
\* pending when the test timeout elapsed, and was ended then
C21_Witness ==
    /\ waitCall.fn = "waitForPageLoad"
    /\ defaultTimeout = 0
    /\ element = "loading"
    /\ waitElapsed >= TestTimeout
    /\ waitOutcome = "TestTimeout"
    /\ waitStatus = "threw"

(***************************************************************************)
(* Generators of utils/testData.ts                                         *)
(* Math.random() is a value k / RandomSteps with 0 <= k < RandomSteps; the *)
(* successive values of one run are randomDraw, randomDraw + randomStride, *)
(* ... (modulo RandomSteps), and a stride of 0 repeats the value.          *)
(***************************************************************************)
OrderNumberRange == 99999
OrderNumberWidth == 5
VinLength == 17

\* const chars = "ABCDEFGHJKLMNPRSTUVWXYZ0123456789"
VinChars ==
    <<"A", "B", "C", "D", "E", "F", "G", "H", "J", "K", "L", "M", "N", "P",
      "R", "S", "T", "U", "V", "W", "X", "Y", "Z",
      "0", "1", "2", "3", "4", "5", "6", "7", "8", "9">>

\* the value Math.random() returns after the value k / RandomSteps
NextDraw(k) == (k + randomStride) % RandomSteps

RandomBelow_Round(k, range) == (2 * k * range + RandomSteps) \div (2 * RandomSteps)

\* Math.floor(Math.random() * range)
RandomBelow(k, range) == (k * range) \div RandomSteps

\* String.prototype.charAt(index): the empty string outside the string
CharAt(s, index) ==
    IF index >= 0 /\ index < Len(s) THEN <<s[index + 1]>> ELSE <<>>

PadStart_NoPad(s, width, ch) == s

\* String.prototype.padStart(width, ch) with a one-character ch
PadStart(s, width, ch) ==
    IF Len(s) >= width THEN s
    ELSE [i \in 1..(width - Len(s)) |-> ch] \o s

\* generateOrderNumber(): `RO-${year}-${random}`
GenerateOrderNumberResult(year, k) ==
    LET random == PadStart(NumberToString(RandomBelow(k, OrderNumberRange)),
                           OrderNumberWidth, "0")
    IN  <<"R", "O", "-">> \o NumberToString(year) \o <<"-">> \o random

GenerateOrderNumber ==
    /\ genCall.fn \in {"none", "generateOrderNumber"}
    /\ Len(orderNumbers) < MaxOrderNumbers
    /\ LET result == GenerateOrderNumberResult(currentYear, randomDraw)
       IN  /\ genCall' = [fn |-> "generateOrderNumber", draw |-> randomDraw,
                          result |-> result]
           /\ orderNumbers' = Append(orderNumbers, result)
    /\ randomDraw' = NextDraw(randomDraw)
    /\ UNCHANGED <<currentYear, randomStride>>
    /\ UNCHANGED notGenVars

\* generateRandomVIN(): let vin = ""; let i = 0
GenerateRandomVIN ==
    /\ genCall.fn = "none"
    /\ genCall' = [fn |-> "generateRandomVIN", status |-> "running",
                   i |-> 0, index |-> 0, vin |-> <<>>]
    /\ UNCHANGED <<currentYear, randomDraw, randomStride, orderNumbers>>
    /\ UNCHANGED notGenVars

\* one iteration: vin += chars.charAt(Math.floor(Math.random() * chars.length))
VinLoopIteration ==
    /\ genCall.fn = "generateRandomVIN"
    /\ genCall.status = "running"
    /\ genCall.i < VinLength
    /\ LET index == RandomBelow(randomDraw, Len(VinChars))
       IN  genCall' = [genCall EXCEPT !.i = @ + 1,
                                      !.index = index,
                                      !.vin = @ \o CharAt(VinChars, index)]
    /\ randomDraw' = NextDraw(randomDraw)
    /\ UNCHANGED <<currentYear, randomStride, orderNumbers>>
    /\ UNCHANGED notGenVars

\* the loop condition i < 17 fails: return vin
VinReturn ==
    /\ genCall.fn = "generateRandomVIN"
    /\ genCall.status = "running"
    /\ ~(genCall.i < VinLength)
    /\ genCall' = [genCall EXCEPT !.status = "returned"]
    /\ UNCHANGED <<currentYear, randomDraw, randomStride, orderNumbers>>
    /\ UNCHANGED notGenVars

NextGen ==
    \/ GenerateOrderNumber
    \/ GenerateRandomVIN
    \/ VinLoopIteration
    \/ VinReturn

Years == FirstYear..(FirstYear + YearSpan)

GenInitial ==
    /\ currentYear \in Years
    /\ randomDraw \in 0..(RandomSteps - 1)
    /\ randomStride \in 0..MaxStride
    /\ orderNumbers = <<>>
    /\ genCall = [fn |-> "none"]

InitGen ==
    /\ GenInitial
    /\ ApiIdle
    /\ AssertIdle
    /\ FormIdle
    /\ WaitIdle
    /\ DateIdle
    /\ SuiteIdle
    /\ PageIdle
    /\ CalendarIdle
    /\ PanelIdle

SpecGen == InitGen /\ [][NextGen]_vars

IsDigit(c) == c \in {"0", "1", "2", "3", "4", "5", "6", "7", "8", "9"}

\* C10: every order number generated has the form RO-<current year>-<suffix>:
\* "RO-", the four digits of the current year, "-", and exactly five decimal
\* digits (the random number, zero-padded on the left).
C10_OrderNumberFormat ==
    genCall.fn = "generateOrderNumber" =>
        LET s == genCall.result
        IN  /\ Len(s) = 13
            /\ SubSeq(s, 1, 3) = <<"R", "O", "-">>
            /\ SubSeq(s, 4, 7) = NumberToString(currentYear)
            /\ \A i \in 4..7 : IsDigit(s[i])
            /\ s[8] = "-"
            /\ \A i \in 9..13 : IsDigit(s[i])

\* an order number whose random part needed zero-padding was generated
C10_Witness ==
    /\ genCall.fn = "generateOrderNumber"
    /\ genCall.draw = 1
    /\ genCall.result[9] = "0"
    /\ genCall.result[13] # "0"

\* C11: no two calls of generateOrderNumber() in one run return the same
\* order number.
C11_OrderNumbersUnique ==
    \A i, j \in DOMAIN orderNumbers :
        i # j => orderNumbers[i] # orderNumbers[j]

\* the random suffix of an order number: its last five characters
Suffix(orderNumber) ==
    SubSeq(orderNumber, Len(orderNumber) - OrderNumberWidth + 1, Len(orderNumber))

\* C12: the random suffix ranges over exactly the values 00000 .. 99999: no
\* suffix is outside them, and the largest of them, 99999, is the suffix of
\* the order number of some value of Math.random().
C12_SuffixRange ==
    genCall.fn = "generateOrderNumber" =>
        /\ \A i \in 1..OrderNumberWidth : IsDigit(Suffix(genCall.result)[i])
        /\ \E k \in 0..(RandomSteps - 1) :
               Suffix(GenerateOrderNumberResult(currentYear, k))
                   = <<"9", "9", "9", "9", "9">>

LegalVinChars ==
    {"A", "B", "C", "D", "E", "F", "G", "H", "J", "K", "L", "M", "N", "P",
     "R", "S", "T", "U", "V", "W", "X", "Y", "Z",
     "0", "1", "2", "3", "4", "5", "6", "7", "8", "9"}

\* C13: generateRandomVIN() returns 17 characters, each a digit or an upper
\* case letter other than I, O and Q, and the index computed in every
\* iteration is a position of the alphabet string.
C13_VinShape ==
    genCall.fn = "generateRandomVIN" =>
        /\ genCall.index \in 0..(Len(VinChars) - 1)
        /\ Len(genCall.vin) = genCall.i
        /\ \A n \in DOMAIN genCall.vin : genCall.vin[n] \in LegalVinChars
        /\ genCall.status = "returned" => Len(genCall.vin) = 17

\* a VIN was returned that starts with the last character of the alphabet
\* and goes on with its first
C13_Witness ==
    /\ genCall.fn = "generateRandomVIN"
    /\ genCall.status = "returned"
    /\ genCall.vin[1] = "9"
    /\ genCall.vin[2] = "A"

(***************************************************************************)
(* getNextBusinessDay of utils/testData.ts                                 *)
(* Days are numbered from Monday 1 January 2024 (day 0).  new Date() is an *)
(* instant, a UTC day and hour, on a host whose local time is `offset`     *)
(* hours ahead of UTC (behind it when negative).                           *)
(***************************************************************************)
\* the lengths of the months of 2024
MonthLengths == <<31, 29, 31, 30, 31, 30, 31, 31, 30, 31, 30, 31>>

\* the number of the local calendar day of the instant d
LocalDay(d) == (d.day * 24 + d.hour + d.offset) \div 24

\* Date.prototype.getDay(): the day of the week in local time, 0 is Sunday
GetDay(d) == (LocalDay(d) + 1) % 7

\* let daysToAdd = 1; if (getDay() === 5) daysToAdd = 3; if (getDay() === 6) daysToAdd = 2
DaysToAdd(d) ==
    LET afterFriday == IF GetDay(d) = 5 THEN 3 ELSE 1
    IN  IF GetDay(d) = 6 THEN 2 ELSE afterFriday

\* nextDay.setDate(today.getDate() + n): the local date moves by n days and
\* the local time of day is kept, so the instant moves by n * 24 hours
SetDatePlus(d, n) == [d EXCEPT !.day = @ + n]

RECURSIVE MonthAndDay(_, _)
\* the month and day of the month of the day `dayOfYear` days after the
\* first of `month`
MonthAndDay(month, dayOfYear) ==
    IF dayOfYear < MonthLengths[month]
    THEN <<month, dayOfYear + 1>>
    ELSE MonthAndDay(month + 1, dayOfYear - MonthLengths[month])

\* YYYY-MM-DD of a day number
IsoDate(dayNumber) ==
    LET md == MonthAndDay(1, dayNumber)
    IN  <<"2", "0", "2", "4", "-">>
            \o PadStart(NumberToString(md[1]), 2, "0") \o <<"-">>
            \o PadStart(NumberToString(md[2]), 2, "0")

\* d.toISOString().split("T")[0]: the calendar date of the instant in UTC
ToIsoDate(d) == IsoDate(d.day)

GetNextBusinessDayResult(d) == ToIsoDate(SetDatePlus(d, DaysToAdd(d)))

GetNextBusinessDay ==
    /\ dateCall.fn = "none"
    /\ dateCall' = [fn |-> "getNextBusinessDay",
                    result |-> GetNextBusinessDayResult(today)]
    /\ UNCHANGED today
    /\ UNCHANGED notDateVars

NextDate ==
    \/ GetNextBusinessDay

\* the UTC offsets of the time zones in use, in whole hours
TzOffsets == (0 - 12)..14

DateInitial ==
    /\ today \in [day : FirstDay..(FirstDay + DaySpan), hour : 0..23,
                  offset : TzOffsets]
    /\ dateCall = [fn |-> "none"]

InitDate ==
    /\ DateInitial
    /\ ApiIdle
    /\ AssertIdle
    /\ FormIdle
    /\ WaitIdle
    /\ GenIdle
    /\ SuiteIdle
    /\ PageIdle
    /\ CalendarIdle
    /\ PanelIdle

SpecDate == InitDate /\ [][NextDate]_vars

\* the date the claim expects when today is the day `dayNumber`: the next
\* day, or the following Monday after a Friday (day 4 of a week) or a
\* Saturday (day 5 of a week)
ExpectedNextDay(dayNumber) ==
    LET weekday == dayNumber % 7
        add == IF weekday = 4 THEN 3 ELSE IF weekday = 5 THEN 2 ELSE 1
    IN  IsoDate(dayNumber + add)

\* C14: getNextBusinessDay returns tomorrow's date, or the date of the
\* following Monday when today is a Friday or a Saturday; "today" is read
\* as the host's local calendar day or as the UTC calendar day.
C14_TomorrowOrMonday ==
    dateCall.fn = "getNextBusinessDay" =>
        \/ dateCall.result = ExpectedNextDay(LocalDay(today))
        \/ dateCall.result = ExpectedNextDay(today.day)

\* the day the returned YYYY-MM-DD string names
ResultDay ==
    CHOOSE n \in FirstDay..(FirstDay + DaySpan + 4) : IsoDate(n) = dateCall.result

\* C24: the date getNextBusinessDay returns is a business day (Monday to
\* Friday) and lies after today's date, "today" read as the host's local
\* calendar day or as the UTC calendar day.
C24_BusinessDayAfterToday ==
    dateCall.fn = "getNextBusinessDay" =>
        /\ ResultDay % 7 <= 4
        /\ \/ ResultDay > LocalDay(today)
           \/ ResultDay > today.day

(***************************************************************************)
(* The test suite "API - Repair Orders": the tests that read or write the  *)
(* suite-level variable createdOrderId.  The runner may run any of them,   *)
(* in any order, each at most once; the server answers as it pleases.      *)
(***************************************************************************)
DefaultOrderId == <<"RO-2024-001">>

\* body.id of a create response
CreatedIds == {Str(<<"RO-2024-101">>), Str(<<"RO-2024-102">>), Str(<<>>), Undefined}

\* JavaScript truthiness of a string or undefined
Truthy(value) == value.type = "string" /\ value.v # <<>>

\* const orderId = createdOrderId || "RO-2024-001"
OrderIdOf(created) == IF Truthy(created) THEN created.v ELSE DefaultOrderId

HasRun(name) == \E n \in DOMAIN suiteLog : suiteLog[n].test = name

\* test "should create new repair order": the assertions on the response
\* come before the assignment to createdOrderId
TestCreate ==
    /\ ~HasRun("create")
    /\ \E status \in {201, 400}, id \in CreatedIds, echoed \in BOOLEAN :
           LET passed == status = 201 /\ id # Undefined /\ echoed
           IN  /\ createdOrderId' = IF passed THEN id ELSE createdOrderId
               /\ suiteLog' = Append(suiteLog,
                      [test |-> "create",
                       request |-> Req("POST", <<"/repair-orders">>, "createRepairOrderPayload"),
                       outcome |-> IF passed THEN "passed" ELSE "failed"])
    /\ UNCHANGED notSuiteVars

\* the two update tests: PATCH the order orderId and accept 200 or 404
PatchTest(name, payload) ==
    /\ ~HasRun(name)
    /\ \E status \in {200, 404, 500} :
           suiteLog' = Append(suiteLog,
               [test |-> name,
                request |-> Req("PATCH",
                                <<"/repair-orders/">> \o OrderIdOf(createdOrderId),
                                payload),
                outcome |-> IF status \in {200, 404} THEN "passed" ELSE "failed"])
    /\ UNCHANGED createdOrderId
    /\ UNCHANGED notSuiteVars

TestUpdate == PatchTest("update", "updateRepairOrderPayload")
TestPartialUpdate == PatchTest("partial", "partialUpdate")

NextSuite ==
    \/ TestCreate
    \/ TestUpdate
    \/ TestPartialUpdate

SuiteInitial ==
    /\ createdOrderId = Undefined
    /\ suiteLog = <<>>

InitSuite ==
    /\ SuiteInitial
    /\ ApiIdle
    /\ AssertIdle
    /\ FormIdle
    /\ WaitIdle
    /\ GenIdle
    /\ DateIdle
    /\ PageIdle
    /\ CalendarIdle
    /\ PanelIdle

SpecSuite == InitSuite /\ [][NextSuite]_vars

\* C17: every test issues the same request whatever ran before it: the
\* request of each test that has run is the request it issues when it is the
\* first test to run (createdOrderId still undefined).
C17_TestsIndependent ==
    \A n \in DOMAIN suiteLog :
        suiteLog[n].test \in {"update", "partial"} =>
            suiteLog[n].request.path = <<"/repair-orders/">> \o DefaultOrderId

(***************************************************************************)
(* The repair-orders list page and the query operations of                 *)
(* RepairOrdersPage.  A string is the sequence of its pieces; " " is white *)
(* space.  The page changes only when the application re-renders it.       *)
(***************************************************************************)
\* an element the locator does not match
Absent == [type |-> "absent", v |-> "absent"]

\* textContent of the first cell of a row
Cells ==
    { Null, Str(<<>>), Str(<<" ">>), Str(<<" ", "RO-2024-001", " ">>),
      Str(<<"RO-2024-002">>) }

RowLists == UNION { [1..n -> Cells] : n \in 0..MaxRows }

\* the rows the application may show on the following page
NextPageRows == { <<>>, <<Str(<<"RO-2024-002">>)>> }

\* the pagination text element: missing, or its textContent
PageInfos == {Absent, Null, Str(<<>>), Str(<<"Showing 1-10 of 50 results">>)}

RECURSIVE TrimStart(_)
TrimStart(s) == IF s # <<>> /\ Head(s) = " " THEN TrimStart(Tail(s)) ELSE s

RECURSIVE TrimEnd(_)
TrimEnd(s) ==
    IF s # <<>> /\ s[Len(s)] = " " THEN TrimEnd(SubSeq(s, 1, Len(s) - 1)) ELSE s

\* String.prototype.trim()
Trim(s) == TrimEnd(TrimStart(s))

GetTextResult_Raw(textContent) == textContent

\* BasePage.getText: (await locator.textContent()) || ""
GetTextResult(textContent) ==
    IF Truthy(textContent) THEN textContent ELSE Str(<<>>)

RECURSIVE GetAllOrderNumbersResult(_)
\* the loop of getAllOrderNumbers: if (orderNumber) push(orderNumber.trim())
GetAllOrderNumbersResult(rows) ==
    IF rows = <<>> THEN <<>>
    ELSE (IF Truthy(Head(rows)) THEN <<Trim(Head(rows).v)>> ELSE <<>>)
             \o GetAllOrderNumbersResult(Tail(rows))

\* Array.prototype.includes on strings
Includes(list, x) == \E i \in DOMAIN list : list[i] = x

Bool(b) == IF b THEN "true" ELSE "false"

EngineCall(call, target) == [call |-> call, target |-> target]

PageCalls_Click(op, p) == <<EngineCall("click", "resultsTable")>>

\* the calls a page-object operation makes on the automation engine
PageCalls(op, p) ==
    CASE op = "hasResults" -> <<EngineCall("waitFor", "resultsTable")>>
      [] op = "hasNoResults" -> <<EngineCall("waitFor", "noResultsMessage")>>
      [] op = "getRepairOrderCount" -> <<EngineCall("count", "tableRows")>>
      [] op \in {"getAllOrderNumbers", "hasOrderNumber"} ->
             <<EngineCall("all", "tableRows")>>
                 \o [i \in 1..Len(p.rows) |-> EngineCall("textContent", "td:first-child")]
      [] op = "getPaginationInfo" -> <<EngineCall("textContent", "pageInfo")>>
      [] op = "goToNextPage" ->
             <<EngineCall("click", "nextPageButton"),
               EngineCall("waitForLoadState", "page")>>

NoQuery == [op |-> "none", arg |-> <<>>, status |-> "none", value |-> "none", calls |-> <<>>]

\* a read-only operation ends: the page is as it was
Query(op, arg, status, value) ==
    /\ lastQuery' = [op |-> op, arg |-> arg, status |-> status, value |-> value,
                     calls |-> PageCalls(op, page)]
    /\ prevQuery' = lastQuery
    /\ UNCHANGED page
    /\ UNCHANGED notPageVars

\* isVisible(locator) on an element that is, and stays, visible or not
IsVisibleOn(visible) ==
    IsVisibleResult(IF visible THEN "resolved" ELSE "TimeoutError").value

HasResults == Query("hasResults", <<>>, "returned", IsVisibleOn(page.table))

HasNoResults == Query("hasNoResults", <<>>, "returned", IsVisibleOn(page.noResults))

GetRepairOrderCount ==
    Query("getRepairOrderCount", <<>>, "returned", Len(page.rows))

GetAllOrderNumbers ==
    Query("getAllOrderNumbers", <<>>, "returned", GetAllOrderNumbersResult(page.rows))

HasOrderNumber ==
    \E orderNumber \in {<<"RO-2024-001">>, <<"RO-9999-999">>} :
        Query("hasOrderNumber", <<orderNumber>>, "returned",
              Bool(Includes(GetAllOrderNumbersResult(page.rows), orderNumber)))

\* getText(this.pageInfo); textContent() fails when the element never appears
GetPaginationInfo ==
    IF page.pageInfo.type = "absent"
    THEN Query("getPaginationInfo", <<>>, "threw", "TimeoutError")
    ELSE Query("getPaginationInfo", <<>>, "returned", GetTextResult(page.pageInfo))

\* goToNextPage(): click(nextPageButton), waitForPageLoad(); the application
\* shows other rows
GoToNextPage ==
    /\ \E rows \in NextPageRows : page' = [page EXCEPT !.rows = rows]
    /\ lastQuery' = [NoQuery EXCEPT !.op = "goToNextPage", !.status = "returned",
                                    !.calls = PageCalls("goToNextPage", page)]
    /\ prevQuery' = NoQuery
    /\ UNCHANGED notPageVars

NextPage ==
    \/ HasResults
    \/ HasNoResults
    \/ GetRepairOrderCount
    \/ GetAllOrderNumbers
    \/ HasOrderNumber
    \/ GetPaginationInfo
    \/ GoToNextPage

PageInitial ==
    /\ page \in [table : BOOLEAN, noResults : BOOLEAN, rows : RowLists,
                 pageInfo : PageInfos]
    /\ lastQuery = NoQuery
    /\ prevQuery = NoQuery

InitPage ==
    /\ PageInitial
    /\ ApiIdle
    /\ AssertIdle
    /\ FormIdle
    /\ WaitIdle
    /\ GenIdle
    /\ DateIdle
    /\ SuiteIdle
    /\ CalendarIdle
    /\ PanelIdle

SpecPage == InitPage /\ [][NextPage]_vars

QueryOps ==
    { "hasResults", "hasNoResults", "getRepairOrderCount", "getAllOrderNumbers",
      "hasOrderNumber", "getPaginationInfo" }

MutatingCalls == {"click", "fill", "selectOption", "goto", "press", "check"}

\* C19: the query operations hasResults, hasNoResults, getRepairOrderCount,
\* getAllOrderNumbers, hasOrderNumber and getPaginationInfo make no click,
\* fill, select or navigation call and leave the page as it is, and the same
\* query made twice on a page that has not changed ends the same way twice.
C19_QueriesOnlyRead ==
    /\ [](lastQuery.op \in QueryOps =>
             /\ \A i \in DOMAIN lastQuery.calls :
                    lastQuery.calls[i].call \notin MutatingCalls
             /\ (prevQuery.op = lastQuery.op /\ prevQuery.arg = lastQuery.arg)
                    => /\ prevQuery.status = lastQuery.status
                       /\ prevQuery.value = lastQuery.value)
    /\ [][lastQuery'.op \in QueryOps => page' = page]_vars

\* hasOrderNumber was called twice with the same order number on a page with
\* rows and found it both times
C19_Witness ==
    /\ lastQuery.op = "hasOrderNumber"
    /\ prevQuery.op = "hasOrderNumber"
    /\ lastQuery.arg = prevQuery.arg
    /\ lastQuery.value = "true"
    /\ Len(lastQuery.calls) > 1

\* C20: when getText returns, it returns a string: the empty string when the
\* text content of the element is null or empty, the text content otherwise.
C20_GetTextIsString ==
    (lastQuery.op = "getPaginationInfo" /\ lastQuery.status = "returned") =>
        /\ lastQuery.value.type = "string"
        /\ lastQuery.value = IF Truthy(page.pageInfo) THEN page.pageInfo
                             ELSE Str(<<>>)

\* getPaginationInfo returned "" for an element whose text content is null
C20_Witness ==
    /\ lastQuery.op = "getPaginationInfo"
    /\ lastQuery.status = "returned"
    /\ page.pageInfo.type = "object"
    /\ lastQuery.value = Str(<<>>)

\* the trimmed first-cell texts of the rows whose text is neither null nor
\* empty, in row order
RECURSIVE NonEmptyTexts(_)
NonEmptyTexts(rows) ==
    IF rows = <<>> THEN <<>>
    ELSE (IF Head(rows).type = "string" /\ Head(rows).v # <<>>
          THEN <<Trim(Head(rows).v)>> ELSE <<>>)
             \o NonEmptyTexts(Tail(rows))

\* C30: getAllOrderNumbers returns, in row order, the trimmed first-cell
\* texts of the rows, skipping the rows whose first cell has null or empty
\* text; the result is never longer than the number of rows and holds no
\* empty string; hasOrderNumber(x) is true exactly when x equals one of
\* these entries as a whole.
C30_OrderNumbersOfRows ==
    /\ lastQuery.op = "getAllOrderNumbers" =>
           /\ lastQuery.value = NonEmptyTexts(page.rows)
           /\ Len(lastQuery.value) <= Len(page.rows)
           /\ \A i \in DOMAIN lastQuery.value : lastQuery.value[i] # <<>>
    /\ lastQuery.op = "hasOrderNumber" =>
           (lastQuery.value = "true"
               <=> \E i \in DOMAIN NonEmptyTexts(page.rows) :
                      NonEmptyTexts(page.rows)[i] = lastQuery.arg[1])

(***************************************************************************)
(* The calendar view of the appointments page.  The calendar itself is the *)
(* application's: a click on its next (previous) button shows the month    *)
(* after (before) the one shown, and the label is re-rendered within the   *)
(* fixed wait that follows the click.                                      *)
(***************************************************************************)
MonthNames ==
    <<"January", "February", "March", "April", "May", "June", "July",
      "August", "September", "October", "November", "December">>

\* the text of the current-month label, e.g. "January 2024"
MonthLabel(month) ==
    <<MonthNames[(month % 12) + 1], " ">> \o NumberToString(2024 + (month \div 12))

\* the month the calendar shows after a click on one of its buttons
CalendarAfterClick(button, month) ==
    IF button = "nextMonthButton" THEN month + 1 ELSE month - 1

MonthButton_AlwaysNext(op) == "nextMonthButton"

\* the button goToNextMonth / goToPreviousMonth clicks
MonthButton(op) ==
    IF op = "goToNextMonth" THEN "nextMonthButton" ELSE "previousMonthButton"

\* the test goes on while no operation has thrown
CalendarTestRunning ==
    /\ Len(calLog) < MaxCalendarOps
    /\ \A i \in DOMAIN calLog : calLog[i].outcome = "resolved"

\* await this.click(button); await this.wait(500)
Navigate(op) ==
    /\ CalendarTestRunning
    /\ \E outcome \in StepOutcomes :
           /\ calMonth' = IF outcome = "resolved"
                          THEN CalendarAfterClick(MonthButton(op), calMonth)
                          ELSE calMonth
           /\ calLog' = Append(calLog, [op |-> op, outcome |-> outcome, value |-> <<>>])
    /\ UNCHANGED notCalendarVars

GoToNextMonth == Navigate("goToNextMonth")

GoToPreviousMonth == Navigate("goToPreviousMonth")

\* getCurrentMonth(): getText(this.currentMonthLabel)
GetCurrentMonth ==
    /\ CalendarTestRunning
    /\ calLog' = Append(calLog,
           [op |-> "getCurrentMonth", outcome |-> "resolved",
            value |-> GetTextResult(Str(MonthLabel(calMonth))).v])
    /\ UNCHANGED calMonth
    /\ UNCHANGED notCalendarVars

NextCalendar ==
    \/ GoToNextMonth
    \/ GoToPreviousMonth
    \/ GetCurrentMonth

CalendarInitial ==
    /\ calMonth \in FirstMonth..(FirstMonth + MonthSpan)
    /\ calLog = <<>>

InitCalendar ==
    /\ CalendarInitial
    /\ ApiIdle
    /\ AssertIdle
    /\ FormIdle
    /\ WaitIdle
    /\ GenIdle
    /\ DateIdle
    /\ SuiteIdle
    /\ PageIdle
    /\ PanelIdle

SpecCalendar == InitCalendar /\ [][NextCalendar]_vars

Completed(i, op) == calLog[i].op = op /\ calLog[i].outcome = "resolved"

\* between the reads at i and j lie n completed goToNextMonth calls followed
\* by n completed goToPreviousMonth calls, and nothing else
RoundTrip(i, j, n) ==
    /\ j = i + 2 * n + 1
    /\ Completed(i, "getCurrentMonth")
    /\ Completed(j, "getCurrentMonth")
    /\ \A k \in 1..n : Completed(i + k, "goToNextMonth")
    /\ \A k \in 1..n : Completed(i + n + k, "goToPreviousMonth")

CloseOps == {"closeDetailsPanel", "closeDetailsModal"}

PanelStates == {"absent", "hidden", "visible"}

\* the Playwright steps are pending or between two calls of the test
PanelTestRunning == panelPc \in {"ready", "waitHidden", "closed", "checking"}

\* closeDetails*: await this.click(<close button>)
ClickClose ==
    /\ panelPc = "ready"
    /\ \E outcome \in StepOutcomes :
          panelPc' = IF outcome = "resolved" THEN "waitHidden" ELSE "threw"
    /\ panelElapsed' = 0
    /\ UNCHANGED <<panelOp, panel, panelSeen, panelReshown, panelOpen>>
    /\ UNCHANGED notPanelVars

\* closeDetails*: await this.waitForElementToDisappear(<details>) resolves
\* and the method returns
DisappearResolves ==
    /\ panelPc = "waitHidden"
    /\ InState(panel, WaitStateOf("waitForElementToDisappear"))
    /\ panelSeen' = panel
    /\ panelPc' = "closed"
    /\ UNCHANGED <<panelOp, panel, panelElapsed, panelReshown, panelOpen>>
    /\ UNCHANGED notPanelVars

\* the wait for "hidden" is given no timeout: the test timeout ends it
DisappearTimesOut ==
    /\ panelPc = "waitHidden"
    /\ ~InState(panel, WaitStateOf("waitForElementToDisappear"))
    /\ TestTimedOut(panelElapsed)
    /\ panelPc' = "threw"
    /\ UNCHANGED <<panelOp, panel, panelElapsed, panelSeen, panelReshown, panelOpen>>
    /\ UNCHANGED notPanelVars

\* the test calls isDetailsPanelOpen / isDetailsModalOpen: isVisible(<details>)
CallIsOpen ==
    /\ panelPc = "closed"
    /\ panelPc' = "checking"
    /\ panelElapsed' = 0
    /\ UNCHANGED <<panelOp, panel, panelSeen, panelReshown, panelOpen>>
    /\ UNCHANGED notPanelVars

\* isVisible: waitFor({state: "visible", timeout: 5000}) resolves
IsOpenResolves ==
    /\ panelPc = "checking"
    /\ InState(panel, WaitStateOf("isVisible"))
    /\ panelOpen' = IsVisibleResult("resolved").value
    /\ panelPc' = "done"
    /\ UNCHANGED <<panelOp, panel, panelElapsed, panelSeen, panelReshown>>
    /\ UNCHANGED notPanelVars

\* isVisible: waitFor times out and the catch returns false
IsOpenTimesOut ==
    /\ panelPc = "checking"
    /\ ~InState(panel, WaitStateOf("isVisible"))
    /\ TimedOut([fn |-> "isVisible"], 0, panelElapsed)
    /\ panelOpen' = IsVisibleResult("TimeoutError").value
    /\ panelPc' = "done"
    /\ UNCHANGED <<panelOp, panel, panelElapsed, panelSeen, panelReshown>>
    /\ UNCHANGED notPanelVars

\* time passes while a wait is pending
PanelTimePasses ==
    /\ \/ panelPc = "waitHidden" /\ ~TestTimedOut(panelElapsed)
       \/ panelPc = "checking" /\ ~TimedOut([fn |-> "isVisible"], 0, panelElapsed)
    /\ panelElapsed' = panelElapsed + TickMs
    /\ UNCHANGED <<panelOp, panel, panelPc, panelSeen, panelReshown, panelOpen>>
    /\ UNCHANGED notPanelVars

\* the application hides, removes or shows the details element
PanelChanges ==
    /\ panelPc \in {"waitHidden", "closed", "checking"}
    /\ panel' \in PanelStates \ {panel}
    /\ panelReshown' =
          (panelReshown \/ (panel' = "visible" /\ panelPc \in {"closed", "checking"}))
    /\ UNCHANGED <<panelOp, panelPc, panelElapsed, panelSeen, panelOpen>>
    /\ UNCHANGED notPanelVars

NextPanel ==
    \/ ClickClose
    \/ DisappearResolves
    \/ DisappearTimesOut
    \/ CallIsOpen
    \/ IsOpenResolves
    \/ IsOpenTimesOut
    \/ PanelTimePasses
    \/ PanelChanges

\* the details are open: the test has seen isDetailsPanelOpen() return true
PanelInitial ==
    /\ panelOp \in CloseOps
    /\ panel = "visible"
    /\ panelPc = "ready"
    /\ panelElapsed = 0
    /\ panelSeen = "none"
    /\ panelReshown = FALSE
    /\ panelOpen = "none"

InitPanel ==
    /\ PanelInitial
    /\ ApiIdle
    /\ AssertIdle
    /\ FormIdle
    /\ WaitIdle
    /\ GenIdle
    /\ DateIdle
    /\ SuiteIdle
    /\ PageIdle
    /\ CalendarIdle

SpecPanel == InitPanel /\ [][NextPanel]_vars

====
